---- MODULE Spec2Model ----
(***************************************************************************)
(* Model of integrations/agent-lightning:                                  *)
(*   - collect_traces.main: the batch dispatcher (semaphore-gated run_one  *)
(*     coroutines, asyncio.gather, the trace write loop);                  *)
(*   - openclaw_agent._messages_to_gen_ai_rounds: the round splitter.      *)
(***************************************************************************)
EXTENDS Integers, Sequences, FiniteSets, TLC

\* ---------------------------------------------------------------- bounds
MaxPrompts == 2          \* at most this many non-empty prompt lines
MaxEnvConcurrent == 2    \* MAX_CONCURRENT takes the integer values 0..this
MaxMessages == 4         \* longest message list given to the round splitter
MaxRoundLen == 2         \* most messages (context and completion together) of a flattened round
MaxFiles == 2            \* at most this many rollout_*.json files in TRACES_DIR
MaxTraceMessages == 3    \* longest conversation behind a persisted trace record
MaxRequests == 2         \* at most this many /chat requests reach the bridge
MaxClock == 1            \* the UTC clock shows the seconds 0..this
MaxAgentCalls == 2       \* at most this many rollouts of openclaw_agent_gateway

\* ---------------------------------------------------------------- constants
DefaultMaxConcurrent == 4    \* the "4" of os.environ.get("MAX_CONCURRENT", "4")

VARIABLES
    \* --- collect_traces.main
    pc,              \* position of main
    env,             \* GATEWAY_BASE_URL, INTERNAL_SECRET, SESSION_KEY as set in the environment
    maxConcEnv,      \* MAX_CONCURRENT as set in the environment
    n,               \* number of non-empty prompt lines in the prompts file
    max_concurrent,  \* the local max_concurrent (0 before it is computed)
    semValue,        \* asyncio.Semaphore._value
    semWaiters,      \* asyncio.Semaphore._waiters, FIFO
    tstate,          \* position of each run_one coroutine
    gw,              \* outcome of _call_gateway_agent_run inside the task's step
    stepOut,         \* outcome of runner.step for the task
    ret,             \* the tuple the task returned
    doneOrder,       \* the tasks in the order they finished (gather's done callbacks)
    results,         \* the local results (the list asyncio.gather returned)
    wi,              \* position of the write loop in results
    traces,          \* the payloads written to TRACES_DIR, in write order
    written,         \* the local written
    inputShared,     \* TRUE when the runner hands the agent the caller's task_input dict itself
    \* --- _messages_to_gen_ai_rounds
    messages,        \* the argument
    rounds,          \* the returned list
    rpc,             \* "input" before the call, "returned" after it, "idle" when no call is made
    \* --- _flatten_gen_ai_attrs
    fprompt,         \* the argument prompt
    fcompletion,     \* the argument completion
    attrs,           \* the returned attribute map
    fpc,             \* "input" before the call, "returned" after it, "idle" when no call is made
    \* --- export_sft_dataset.main
    trace_files,     \* the rollout_*.json files of TRACES_DIR in sorted order
    fi,              \* position of the for loop in trace_files (1-based, 0 before the loop)
    samples,         \* the local samples
    sampleFile,      \* for each row of samples, the position of the file it was made from
    adaptRaised,     \* the positions of the files for which adapter.adapt raised
    xpc,             \* position of main: "idle", "start", "loop", "done", "raised"
    \* --- bridge_server
    now,             \* datetime.utcnow() to the second
    bpc,             \* position of each handle_chat coroutine
    bstore,          \* the global _store: 0 for None, else the number of the store object
    brunner,         \* the global _runner: 0 for None, else the store its tracer writes to
    nstores,         \* number of InMemoryLightningStore objects created so far
    bout,            \* outcome of runner.step for each request
    bwrites,         \* the trace files written by the bridge, in write order
    nrunners,        \* number of LitAgentRunner objects created so far
    blocal,          \* the store behind the runner _ensure_runner returned to each request
    bquery,          \* the store each request called query_spans on (0: no call)
    bbody,           \* id(body) of each request while its handler runs (0: no live body)
    bkey,            \* the idempotencyKey each request put in its task_input
    \* --- openclaw_agent.openclaw_agent_gateway and _call_gateway_agent_run
    aurl,            \* gatewayBaseUrl of each rollout's task, by kind
    amsg,            \* message of each rollout's task
    aidem,           \* idempotencyKey of each rollout's task ("" when the task has none)
    apc,             \* position of each rollout
    asent,           \* the idempotency key of the request each rollout sent ("none": no request)
    aresult          \* what _call_gateway_agent_run returned to each rollout

vars == <<pc, env, maxConcEnv, n, max_concurrent, semValue, semWaiters, tstate,
          gw, stepOut, ret, doneOrder, results, wi, traces, written, inputShared,
          messages, rounds, rpc,
          fprompt, fcompletion, attrs, fpc,
          trace_files, fi, samples, sampleFile, adaptRaised, xpc,
          now, bpc, bstore, brunner, nstores, bout, bwrites,
          nrunners, blocal, bquery, bbody, bkey,
          aurl, amsg, aidem, apc, asent, aresult>>

mainVars == <<pc, env, maxConcEnv, n, max_concurrent, semValue, semWaiters, tstate,
              gw, stepOut, ret, doneOrder, results, wi, traces, written, inputShared>>

roundVars == <<messages, rounds, rpc>>

flatVars == <<fprompt, fcompletion, attrs, fpc>>

extractVars == <<trace_files, fi, samples, sampleFile, adaptRaised, xpc>>

bridgeVars == <<now, bpc, bstore, brunner, nstores, bout, bwrites,
                nrunners, blocal, bquery, bbody, bkey>>

agentVars == <<aurl, amsg, aidem, apc, asent, aresult>>

\* The variables of the other components, which main and the round splitter leave alone.
laterVars == <<flatVars, extractVars, bridgeVars, agentVars>>

\* No call of _flatten_gen_ai_attrs is made.
FlatIdle ==
    /\ fprompt = <<>>
    /\ fcompletion = <<>>
    /\ attrs = <<>>
    /\ fpc = "idle"

\* export_sft_dataset.main is not running.
ExtractIdle ==
    /\ trace_files = <<>>
    /\ fi = 0
    /\ samples = <<>>
    /\ sampleFile = <<>>
    /\ adaptRaised = {}
    /\ xpc = "idle"

Requests == 1 .. MaxRequests

NoKey == [kind |-> "none", v |-> 0]

\* The bridge server is not running.
BridgeIdle ==
    /\ now = 0
    /\ bpc = [r \in Requests |-> "off"]
    /\ bstore = 0
    /\ brunner = 0
    /\ nstores = 0
    /\ bout = [r \in Requests |-> "none"]
    /\ bwrites = <<>>
    /\ nrunners = 0
    /\ blocal = [r \in Requests |-> 0]
    /\ bquery = [r \in Requests |-> 0]
    /\ bbody = [r \in Requests |-> 0]
    /\ bkey = [r \in Requests |-> NoKey]

AgentCalls == 1 .. MaxAgentCalls

NoGatewayResult == [outcome |-> "none", text |-> "none", messages |-> "none"]

\* No rollout of openclaw_agent_gateway is followed.
AgentIdle ==
    /\ aurl = [a \in AgentCalls |-> ""]
    /\ amsg = [a \in AgentCalls |-> ""]
    /\ aidem = [a \in AgentCalls |-> ""]
    /\ apc = [a \in AgentCalls |-> "off"]
    /\ asent = [a \in AgentCalls |-> "none"]
    /\ aresult = [a \in AgentCalls |-> NoGatewayResult]

LaterIdle == FlatIdle /\ ExtractIdle /\ BridgeIdle /\ AgentIdle

Tasks == 0 .. (MaxPrompts - 1)

Max(a, b) == IF a >= b THEN a ELSE b

\* ---------------------------------------------------------------- values
\* An environment string: unset (the "" default), whitespace only, or a value.
EnvValues == {"", " ", "v"}

\* str.strip() on the environment strings above.
Strip(s) == IF s = " " THEN "" ELSE s

\* MAX_CONCURRENT: unset, not an integer literal, or an integer.
MaxConcEnvValues ==
    {[kind |-> "unset", val |-> 0], [kind |-> "bad", val |-> 0]}
        \cup {[kind |-> "int", val |-> v] : v \in 0 .. MaxEnvConcurrent}

\* Variant: the limit taken without the max(1, ...) clamp.
ParseMaxConcurrentNoClamp(e) ==
    CASE e.kind = "unset" -> DefaultMaxConcurrent
      [] e.kind = "bad"   -> DefaultMaxConcurrent
      [] OTHER            -> e.val

\* lines 57-60: max(1, int(env or "4")), 4 when int() raises ValueError.
ParseMaxConcurrent(e) ==
    CASE e.kind = "unset" -> Max(1, DefaultMaxConcurrent)
      [] e.kind = "bad"   -> DefaultMaxConcurrent
      [] OTHER            -> Max(1, e.val)

\* What _call_gateway_agent_run came back with inside a step.
GatewayOutcomes == {"ok", "status", "transport"}

\* How runner.step ended: a rollout with an id, a rollout without one, or an exception.
StepOutcomes == {"id", "noid", "raise"}

NoRollout == [present |-> FALSE, rollout_id |-> 0]

\* The rollout runner.step returns for task i; ids are assigned per rollout (0 = none).
Rollout(i, out) == [present |-> TRUE, rollout_id |-> IF out = "id" THEN i + 1 ELSE 0]

NoTaskInput == [present |-> FALSE, message |-> -1, response_ref |-> FALSE]

\* lines 92-99: the task_input built for prompt i (the prompt text is identified by i).
TaskInput(i) == [present |-> TRUE, message |-> i, response_ref |-> FALSE]

\* openclaw_agent.py 289-292: after the gateway call the agent sets
\* raw_input["_response_ref"]; the caller's dict has the key when the agent was handed that
\* dict itself.
AgentMutation(task_input, g, shared) ==
    IF shared /\ g \in {"ok", "status", "transport"}
    THEN [task_input EXCEPT !.response_ref = TRUE]
    ELSE task_input

\* The spans the store holds for a rollout after its step: gen_ai spans only when the
\* gateway returned messages (openclaw_agent.py 283-286), then the emitted message.
SpansOf(g) ==
    CASE g = "ok"   -> <<"gen_ai", "message">>
      [] g = "none" -> <<>>
      [] OTHER      -> <<"message">>

NoResult == [i |-> -1, rollout |-> NoRollout, spans |-> <<>>, task_input |-> NoTaskInput]

\* lines 105 and 111: the dropped tuple (i, None, [], None).
DroppedTuple(i) == [i |-> i, rollout |-> NoRollout, spans |-> <<>>, task_input |-> NoTaskInput]

\* line 113: (i, rollout, spans, task_input).
ResultTuple(i, rollout, spans, task_input) ==
    [i |-> i, rollout |-> rollout, spans |-> spans, task_input |-> task_input]

\* ---------------------------------------------------------------- initial state
Init ==
    /\ pc = "start"
    /\ env \in [gateway : EnvValues, secret : EnvValues, session : EnvValues]
    /\ maxConcEnv \in MaxConcEnvValues
    /\ n \in 0 .. MaxPrompts
    /\ max_concurrent = 0
    /\ semValue = 0
    /\ semWaiters = <<>>
    /\ tstate = [i \in Tasks |-> "none"]
    /\ gw = [i \in Tasks |-> "none"]
    /\ stepOut = [i \in Tasks |-> "none"]
    /\ ret = [i \in Tasks |-> NoResult]
    /\ doneOrder = <<>>
    /\ results = <<>>
    /\ wi = 0
    /\ traces = <<>>
    /\ written = 0
    /\ inputShared = FALSE
    /\ messages = <<>>
    /\ rounds = <<>>
    /\ rpc = "idle"
    /\ LaterIdle

\* ---------------------------------------------------------------- main, lines 49-89
\* Variant: a blank value counts as present.
ConfigMissingNoStrip(e) ==
    \/ e.gateway = ""
    \/ e.secret = ""
    \/ e.session = ""

ConfigMissing(e) ==
    \/ Strip(e.gateway) = ""
    \/ Strip(e.secret) = ""
    \/ Strip(e.session) = ""

\* Variant: the semaphore sized by the number of prompts.
SemInitialPrompts(limit, cnt) == cnt

\* line 89: sem = asyncio.Semaphore(max_concurrent)
SemInitial(limit, cnt) == limit

\* lines 49-55 and 68-72: sys.exit(1) on missing configuration or no prompt.
MainExit ==
    /\ pc = "start"
    /\ ConfigMissing(env) \/ n = 0
    /\ pc' = "exit"
    /\ UNCHANGED <<env, maxConcEnv, n, max_concurrent, semValue, semWaiters, tstate,
                   gw, stepOut, ret, results, wi, traces, written>>
    /\ UNCHANGED doneOrder
    /\ UNCHANGED inputShared
    /\ UNCHANGED roundVars
    /\ UNCHANGED laterVars

\* lines 57-89 and 117-118: limit, semaphore, one run_one coroutine per prompt handed to gather.
MainSetup ==
    /\ pc = "start"
    /\ ~ConfigMissing(env)
    /\ n > 0
    /\ max_concurrent' = ParseMaxConcurrent(maxConcEnv)
    /\ semValue' = SemInitial(ParseMaxConcurrent(maxConcEnv), n)
    /\ tstate' = [i \in Tasks |-> IF i < n THEN "created" ELSE "none"]
    /\ pc' = "gather"
    /\ inputShared' \in BOOLEAN
    /\ UNCHANGED <<env, maxConcEnv, n, semWaiters, gw, stepOut, ret, results, wi,
                   traces, written>>
    /\ UNCHANGED doneOrder
    /\ UNCHANGED roundVars
    /\ UNCHANGED laterVars

\* ---------------------------------------------------------------- asyncio.Semaphore
\* Semaphore.locked(): no free slot, or some waiter that is not cancelled.
Locked(value, waiters) == value = 0 \/ waiters /= <<>>

\* Position in waiters of the first waiter whose future is not done, 0 if none.
FirstNotDone(waiters, ts) ==
    LET cand == {k \in 1 .. Len(waiters) : ts[waiters[k]] = "waiting"}
    IN  IF cand = {} THEN 0 ELSE CHOOSE k \in cand : \A m \in cand : k <= m

\* Semaphore._wake_up_next(): hand one slot to the first waiter that is not done.
WakeUpNext(value, waiters, ts) ==
    LET k == FirstNotDone(waiters, ts)
    IN  IF k = 0
        THEN [value |-> value, ts |-> ts]
        ELSE [value |-> value - 1, ts |-> [ts EXCEPT ![waiters[k]] = "woken"]]

\* Semaphore.release(): increment the counter, then wake the next waiter.
Release(value, waiters, ts) == WakeUpNext(value + 1, waiters, ts)

\* waiters.remove(fut) of task i.
RemoveWaiter(waiters, i) == SelectSeq(waiters, LAMBDA t : t /= i)

\* ---------------------------------------------------------------- run_one, lines 91-113
\* asyncio runs the first step of the gathered tasks in creation order.
\* lines 92-100: build task_input, then sem.acquire(): take a slot at once or queue.
TaskStart(i) ==
    /\ pc = "gather"
    /\ tstate[i] = "created"
    /\ \A j \in Tasks : j < i => tstate[j] /= "created"
    /\ IF ~Locked(semValue, semWaiters)
       THEN /\ semValue' = semValue - 1
            /\ tstate' = [tstate EXCEPT ![i] = "step"]
            /\ UNCHANGED semWaiters
       ELSE /\ semWaiters' = Append(semWaiters, i)
            /\ tstate' = [tstate EXCEPT ![i] = "waiting"]
            /\ UNCHANGED semValue
    /\ UNCHANGED <<pc, env, maxConcEnv, n, max_concurrent, gw, stepOut, ret, results,
                   wi, traces, written>>
    /\ UNCHANGED doneOrder
    /\ UNCHANGED inputShared
    /\ UNCHANGED roundVars
    /\ UNCHANGED laterVars

\* Semaphore.acquire() after "await fut": leave the queue, pass a spare slot on, call runner.step.
TaskResume(i) ==
    /\ pc = "gather"
    /\ tstate[i] = "woken"
    /\ LET w  == RemoveWaiter(semWaiters, i)
           nx == IF semValue > 0
                 THEN WakeUpNext(semValue, w, tstate)
                 ELSE [value |-> semValue, ts |-> tstate]
       IN  /\ semWaiters' = w
           /\ semValue' = nx.value
           /\ tstate' = [nx.ts EXCEPT ![i] = "step"]
    /\ UNCHANGED <<pc, env, maxConcEnv, n, max_concurrent, gw, stepOut, ret, results,
                   wi, traces, written>>
    /\ UNCHANGED doneOrder
    /\ UNCHANGED inputShared
    /\ UNCHANGED roundVars
    /\ UNCHANGED laterVars

\* Variant: run_one without the try/except around runner.step.
AfterStepNoExcept(out) ==
    CASE out = "id"    -> "query"
      [] out = "raise" -> "raised"
      [] OTHER        -> "returned"

\* lines 101-111: where run_one goes when runner.step has ended: an exception is caught and
\* a missing rollout_id is skipped (both return at once), a rollout_id goes on to query_spans.
AfterStep(out) == IF out = "id" THEN "query" ELSE "returned"

\* lines 100-111: runner.step ends (the gateway call g inside it, outcome out), the slot is
\* released on leaving "async with"; an exception or a missing rollout_id returns the dropped tuple.
StepEnd(i, g, out) ==
    /\ pc = "gather"
    /\ tstate[i] = "step"
    /\ g = "notcalled" => out = "raise"
    /\ LET rl == Release(semValue, semWaiters, tstate)
       IN  /\ semValue' = rl.value
           /\ tstate' = [rl.ts EXCEPT ![i] = AfterStep(out)]
    /\ gw' = [gw EXCEPT ![i] = g]
    /\ stepOut' = [stepOut EXCEPT ![i] = out]
    /\ ret' = IF out = "id" THEN ret ELSE [ret EXCEPT ![i] = DroppedTuple(i)]
    /\ UNCHANGED <<pc, env, maxConcEnv, n, max_concurrent, semWaiters, results, wi,
                   traces, written>>
    /\ doneOrder' = IF out = "id" THEN doneOrder ELSE Append(doneOrder, i)
    /\ UNCHANGED inputShared
    /\ UNCHANGED roundVars
    /\ UNCHANGED laterVars

\* lines 112-113: store.query_spans returns and the task returns its tuple.
QueryReturn(i) ==
    /\ pc = "gather"
    /\ tstate[i] = "query"
    /\ tstate' = [tstate EXCEPT ![i] = "returned"]
    /\ ret' = [ret EXCEPT ![i] =
                 ResultTuple(i, Rollout(i, stepOut[i]), SpansOf(gw[i]),
                             AgentMutation(TaskInput(i), gw[i], inputShared))]
    /\ UNCHANGED <<pc, env, maxConcEnv, n, max_concurrent, semValue, semWaiters, gw,
                   stepOut, results, wi, traces, written>>
    /\ doneOrder' = Append(doneOrder, i)
    /\ UNCHANGED inputShared
    /\ UNCHANGED roundVars
    /\ UNCHANGED laterVars

\* line 112: store.query_spans raises; nothing in run_one catches it.
QueryRaise(i) ==
    /\ pc = "gather"
    /\ tstate[i] = "query"
    /\ tstate' = [tstate EXCEPT ![i] = "raised"]
    /\ UNCHANGED <<pc, env, maxConcEnv, n, max_concurrent, semValue, semWaiters, gw,
                   stepOut, ret, results, wi, traces, written>>
    /\ doneOrder' = Append(doneOrder, i)
    /\ UNCHANGED inputShared
    /\ UNCHANGED roundVars
    /\ UNCHANGED laterVars

\* ---------------------------------------------------------------- main, lines 116-145
\* Variant: the tuples collected in completion order, as asyncio.as_completed yields them.
GatherResultsAsCompleted(r, cnt) == [k \in 1 .. cnt |-> r[doneOrder[k]]]

\* lines 117-123: every task returned; gather returns their tuples in argument order.
GatherResults(r, cnt) == [k \in 1 .. cnt |-> r[k - 1]]

\* Variant: gather resolving on the first task that returns.
AnyReturned(ts, cnt) == \E i \in Tasks : i < cnt /\ ts[i] = "returned"

\* line 117: gather resolves once every awaitable has returned.
AllReturned(ts, cnt) == \A i \in Tasks : i < cnt => ts[i] = "returned"

GatherReturn ==
    /\ pc = "gather"
    /\ AllReturned(tstate, n)
    /\ results' = GatherResults(ret, n)
    /\ pc' = "write"
    /\ UNCHANGED <<env, maxConcEnv, n, max_concurrent, semValue, semWaiters, tstate,
                   gw, stepOut, ret, wi, traces, written>>
    /\ UNCHANGED doneOrder
    /\ UNCHANGED inputShared
    /\ UNCHANGED roundVars
    /\ UNCHANGED laterVars

\* lines 117-123 with return_exceptions=False: the first exception of a task is raised
\* from gather; the finally block tears the runner down and the exception leaves main.
GatherRaise ==
    /\ pc = "gather"
    /\ \E i \in Tasks : tstate[i] = "raised"
    /\ pc' = "aborted"
    /\ UNCHANGED <<env, maxConcEnv, n, max_concurrent, semValue, semWaiters, tstate,
                   gw, stepOut, ret, results, wi, traces, written>>
    /\ UNCHANGED doneOrder
    /\ UNCHANGED inputShared
    /\ UNCHANGED roundVars
    /\ UNCHANGED laterVars

\* asyncio.run cancels the tasks still pending when main has raised: CancelledError at the
\* task's await; "async with" and Semaphore.acquire give back a slot the task holds.
TaskCancel(i) ==
    /\ pc = "aborted"
    /\ tstate[i] \in {"created", "waiting", "woken", "step", "query"}
    /\ LET w   == RemoveWaiter(semWaiters, i)
           ts  == [tstate EXCEPT ![i] = "cancelled"]
           nx  == IF tstate[i] \in {"woken", "step"}
                  THEN Release(semValue, w, ts)
                  ELSE [value |-> semValue, ts |-> ts]
       IN  /\ semWaiters' = w
           /\ semValue' = nx.value
           /\ tstate' = nx.ts
    /\ UNCHANGED <<pc, env, maxConcEnv, n, max_concurrent, gw, stepOut, ret, results,
                   wi, traces, written>>
    /\ UNCHANGED doneOrder
    /\ UNCHANGED inputShared
    /\ UNCHANGED roundVars
    /\ UNCHANGED laterVars

\* lines 134-141: the payload of one trace file.
Payload(e) ==
    [rollout_id |-> e.rollout.rollout_id,
     task_input |-> e.task_input,
     span_count |-> Len(e.spans),
     spans      |-> e.spans]

\* Variant: the write loop also skips an entry that has no gen_ai span.
SkipEntryNoGenAi(e) ==
    \/ ~e.rollout.present
    \/ ~e.task_input.present
    \/ \A k \in 1 .. Len(e.spans) : e.spans[k] /= "gen_ai"

\* lines 127-128: the entries the write loop skips.
SkipEntry(e) == ~e.rollout.present \/ ~e.task_input.present

\* lines 126-143: one iteration of the write loop.
WriteNext ==
    /\ pc = "write"
    /\ wi < Len(results)
    /\ LET e == results[wi + 1]
       IN  IF SkipEntry(e)
           THEN UNCHANGED <<traces, written>>
           ELSE /\ traces' = Append(traces, Payload(e))
                /\ written' = written + 1
    /\ wi' = wi + 1
    /\ UNCHANGED <<pc, env, maxConcEnv, n, max_concurrent, semValue, semWaiters, tstate,
                   gw, stepOut, ret, results>>
    /\ UNCHANGED doneOrder
    /\ UNCHANGED inputShared
    /\ UNCHANGED roundVars
    /\ UNCHANGED laterVars

\* line 145: the loop is over, main prints the count of traces written.
MainReport ==
    /\ pc = "write"
    /\ wi = Len(results)
    /\ pc' = "done"
    /\ UNCHANGED <<env, maxConcEnv, n, max_concurrent, semValue, semWaiters, tstate,
                   gw, stepOut, ret, results, wi, traces, written>>
    /\ UNCHANGED doneOrder
    /\ UNCHANGED inputShared
    /\ UNCHANGED roundVars
    /\ UNCHANGED laterVars

Next ==
    \/ MainExit
    \/ MainSetup
    \/ \E i \in Tasks : TaskStart(i)
    \/ \E i \in Tasks : TaskResume(i)
    \/ \E i \in Tasks, g \in GatewayOutcomes \cup {"notcalled"}, out \in StepOutcomes :
          StepEnd(i, g, out)
    \/ \E i \in Tasks : QueryReturn(i)
    \/ \E i \in Tasks : QueryRaise(i)
    \/ GatherReturn
    \/ GatherRaise
    \/ \E i \in Tasks : TaskCancel(i)
    \/ WriteNext
    \/ MainReport

Spec == Init /\ [][Next]_vars

\* Every ready coroutine is eventually run by the event loop and every awaited call ends.
FairSpec == Spec /\ WF_vars(Next)

\* ================================================================ round splitter
\* openclaw_agent._messages_to_gen_ai_rounds

\* The role of a message: a role string, or "none" when the key is missing.
RoleValues == {"user", "assistant", "system", "toolResult", "none"}

\* The input lists: a message is its role and its content; the content of the message
\* at position k is k, so that every message of a list is told apart from the others.
MessageLists ==
    UNION {[1 .. len -> RoleValues] : len \in 0 .. MaxMessages}

MakeMessages(roles) == [k \in 1 .. Len(roles) |-> [role |-> roles[k], content |-> k]]

\* line 169: messages[i].get("role") != "assistant"
IsAssistant(m) == m.role = "assistant"

\* lines 169-172 and 174-176: the first position at or after i (1-based) whose message
\* ends the run of messages that are (want = TRUE) / are not (want = FALSE) assistant.
RECURSIVE RunEnd(_, _, _)
RunEnd(msgs, i, want) ==
    IF i <= Len(msgs) /\ IsAssistant(msgs[i]) = want
    THEN RunEnd(msgs, i + 1, want)
    ELSE i

\* Variant: a run collected one message short.
SliceShort(msgs, from, to) == SubSeq(msgs, from, to - 2)

\* lines 168-176: the messages at positions from .. to - 1 collected by one inner loop.
Slice(msgs, from, to) == SubSeq(msgs, from, to - 1)

\* Variant: a round is also skipped when nothing precedes its completion.
SkipRoundEmptyContext(cumulative, completion) == completion = <<>> \/ cumulative = <<>>

\* lines 177-178: if not completion: continue
SkipRound(cumulative, completion) == completion = <<>>

\* Variant: the round's prompt holds only the messages added since the last round.
RoundPromptDelta(cumulative, turn_prompt) == turn_prompt

\* line 180: prompt = cumulative.copy()
RoundPrompt(cumulative, turn_prompt) == cumulative

\* Variant: the completion is not added to the cumulative context.
ExtendCumulativeNone(cumulative, completion) == cumulative

\* line 181: cumulative.extend(completion)
ExtendCumulative(cumulative, completion) == cumulative \o completion

\* lines 166-182: the outer while loop from position i (1-based) on.
RECURSIVE SplitFrom(_, _, _, _)
SplitFrom(msgs, i, cumulative, acc) ==
    IF i > Len(msgs)
    THEN acc
    ELSE LET j           == RunEnd(msgs, i, FALSE)
             turn_prompt == Slice(msgs, i, j)
             cum         == cumulative \o turn_prompt
             k           == RunEnd(msgs, j, TRUE)
             completion  == Slice(msgs, j, k)
         IN  IF SkipRound(cum, completion)
             THEN SplitFrom(msgs, k, cum, acc)
             ELSE SplitFrom(msgs, k, ExtendCumulative(cum, completion),
                            Append(acc, [prompt     |-> RoundPrompt(cum, turn_prompt),
                                         completion |-> completion]))

\* lines 155-183
MessagesToGenAiRounds(msgs) == SplitFrom(msgs, 1, <<>>, <<>>)

InitRounds ==
    /\ pc = "idle"
    /\ env = [gateway |-> "", secret |-> "", session |-> ""]
    /\ maxConcEnv = [kind |-> "unset", val |-> 0]
    /\ n = 0
    /\ max_concurrent = 0
    /\ semValue = 0
    /\ semWaiters = <<>>
    /\ tstate = [i \in Tasks |-> "none"]
    /\ gw = [i \in Tasks |-> "none"]
    /\ stepOut = [i \in Tasks |-> "none"]
    /\ ret = [i \in Tasks |-> NoResult]
    /\ doneOrder = <<>>
    /\ results = <<>>
    /\ wi = 0
    /\ traces = <<>>
    /\ written = 0
    /\ inputShared = FALSE
    /\ \E roles \in MessageLists : messages = MakeMessages(roles)
    /\ rounds = <<>>
    /\ rpc = "input"
    /\ LaterIdle

\* One call of _messages_to_gen_ai_rounds(messages).
SplitRounds ==
    /\ rpc = "input"
    /\ rounds' = MessagesToGenAiRounds(messages)
    /\ rpc' = "returned"
    /\ UNCHANGED messages
    /\ UNCHANGED mainVars
    /\ UNCHANGED laterVars

NextRounds == SplitRounds

SpecRounds == InitRounds /\ [][NextRounds]_vars

\* ================================================================ attribute flattener
\* openclaw_agent._normalize_role_for_openai and _flatten_gen_ai_attrs

\* main and the round splitter are not running.
MainIdle ==
    /\ pc = "idle"
    /\ env = [gateway |-> "", secret |-> "", session |-> ""]
    /\ maxConcEnv = [kind |-> "unset", val |-> 0]
    /\ n = 0
    /\ max_concurrent = 0
    /\ semValue = 0
    /\ semWaiters = <<>>
    /\ tstate = [i \in Tasks |-> "none"]
    /\ gw = [i \in Tasks |-> "none"]
    /\ stepOut = [i \in Tasks |-> "none"]
    /\ ret = [i \in Tasks |-> NoResult]
    /\ doneOrder = <<>>
    /\ results = <<>>
    /\ wi = 0
    /\ traces = <<>>
    /\ written = 0
    /\ inputShared = FALSE

RoundsIdle ==
    /\ messages = <<>>
    /\ rounds = <<>>
    /\ rpc = "idle"

\* The value of msg.get(key): "none" stands for a missing key (or None), "" for an empty string.
FlatRoleValues == {"user", "assistant", "system", "tool", "toolResult", "developer", "", "none"}

FlatContentValues == {"text", "", "none"}

FlatToolCallIdValues == {"none", "call_1"}

\* The messages of a round: dicts with role, content and, on tool messages, tool_call_id.
FlatMessages ==
    {[isdict |-> TRUE, role |-> r, content |-> c, tool_call_id |-> t] :
        r \in FlatRoleValues, c \in FlatContentValues, t \in FlatToolCallIdValues}

\* A list element that is no dict (a JSON string or number): it has no get method.
NotADictMessage ==
    [isdict |-> FALSE, role |-> "none", content |-> "none", tool_call_id |-> "none"]

FlatMessageValues ==
    {m \in FlatMessages : m.tool_call_id /= "none" => m.role \in {"tool", "toolResult"}}
        \cup {NotADictMessage}

FlatMessageLists ==
    UNION {[1 .. len -> FlatMessageValues] : len \in 0 .. MaxRoundLen}

\* Python's "v or dflt" on the values above: None and "" are falsy.
OrDefault(v, dflt) == IF v \in {"none", ""} THEN dflt ELSE v

\* str.lower() on the role values above.
Lower(r) == IF r = "toolResult" THEN "toolresult" ELSE r

\* Variant: the system role folded into user.
NormalizeRoleSystemAsUser(role) ==
    IF role \in {"user", "assistant", "tool"}
    THEN role
    ELSE IF role = "system"
         THEN "user"
         ELSE IF Lower(OrDefault(role, "")) = "toolresult"
              THEN "tool"
              ELSE OrDefault(role, "user")

\* lines 186-192: _normalize_role_for_openai
NormalizeRoleForOpenai(role) ==
    IF role \in {"user", "assistant", "system", "tool"}
    THEN role
    ELSE IF Lower(OrDefault(role, "")) = "toolresult"
         THEN "tool"
         ELSE OrDefault(role, "user")

\* Variant: no placeholder for a missing tool_call_id.
ToolCallIdNoPlaceholder(msg) == msg.tool_call_id

\* line 208: msg.get("tool_call_id") or "call_placeholder"
ToolCallId(msg) == OrDefault(msg.tool_call_id, "call_placeholder")

\* lines 202 and 210: _normalize_role_for_openai(str(msg.get("role") or default))
FlatRole(msg, dflt) == NormalizeRoleForOpenai(OrDefault(msg.role, dflt))

\* Variant: the content is not written.
FlatContentBlank(msg) == ""

\* lines 203 and 211: msg.get("content") or ""
FlatContent(msg) == OrDefault(msg.content, "")

\* The key f"gen_ai.{part}.{idx}.{field}".
AttrKey(part, idx, field) == [part |-> part, idx |-> idx, field |-> field]

\* The keys lines 204-208 and 212-213 write (idx counts from 0, as enumerate does).
PromptKeys(prompt) ==
    {AttrKey("prompt", k - 1, f) : k \in 1 .. Len(prompt), f \in {"role", "content"}}
        \cup {AttrKey("prompt", k - 1, "tool_call_id") :
                 k \in {j \in 1 .. Len(prompt) : FlatRole(prompt[j], "user") = "tool"}}

CompletionKeys(completion) ==
    {AttrKey("completion", k - 1, f) : k \in 1 .. Len(completion), f \in {"role", "content"}}

\* lines 195-214: _flatten_gen_ai_attrs
FlattenGenAiAttrs(prompt, completion) ==
    [key \in PromptKeys(prompt) \cup CompletionKeys(completion) |->
        IF key.part = "prompt"
        THEN CASE key.field = "role"    -> FlatRole(prompt[key.idx + 1], "user")
               [] key.field = "content" -> FlatContent(prompt[key.idx + 1])
               [] OTHER                 -> ToolCallId(prompt[key.idx + 1])
        ELSE CASE key.field = "role"    -> FlatRole(completion[key.idx + 1], "assistant")
               [] OTHER                 -> FlatContent(completion[key.idx + 1])]

InitFlatten ==
    /\ MainIdle
    /\ RoundsIdle
    /\ \E ms \in FlatMessageLists, cut \in 0 .. MaxRoundLen :
          /\ cut <= Len(ms)
          /\ fprompt = SubSeq(ms, 1, cut)
          /\ fcompletion = SubSeq(ms, cut + 1, Len(ms))
    /\ attrs = <<>>
    /\ fpc = "input"
    /\ ExtractIdle
    /\ BridgeIdle
    /\ AgentIdle

AllDicts(msgs) == \A k \in 1 .. Len(msgs) : msgs[k].isdict

\* One call of _flatten_gen_ai_attrs(fprompt, fcompletion) that returns the attribute map.
Flatten ==
    /\ fpc = "input"
    /\ AllDicts(fprompt \o fcompletion)
    /\ attrs' = FlattenGenAiAttrs(fprompt, fcompletion)
    /\ fpc' = "returned"
    /\ UNCHANGED <<fprompt, fcompletion>>
    /\ UNCHANGED mainVars
    /\ UNCHANGED roundVars
    /\ UNCHANGED extractVars
    /\ UNCHANGED bridgeVars
    /\ UNCHANGED agentVars

\* One call of _flatten_gen_ai_attrs on a round with an element that is no dict: msg.get
\* raises AttributeError and no map is returned.
FlattenRaise ==
    /\ fpc = "input"
    /\ ~AllDicts(fprompt \o fcompletion)
    /\ fpc' = "raised"
    /\ UNCHANGED <<fprompt, fcompletion, attrs>>
    /\ UNCHANGED mainVars
    /\ UNCHANGED roundVars
    /\ UNCHANGED extractVars
    /\ UNCHANGED bridgeVars
    /\ UNCHANGED agentVars

NextFlatten == Flatten \/ FlattenRaise

SpecFlatten == InitFlatten /\ [][NextFlatten]_vars

\* ================================================================ example extractor
\* export_sft_dataset.main

\* The contents of the messages of a conversation, by position.
ContentNames == <<"hi", "hello", "bye", "goodbye", "m5", "m6">>

\* The conversations behind the trace records. Messages after the last assistant message
\* reach no span (openclaw_agent.py 177-178), so a conversation that does not end with an
\* assistant message gives the record of its prefix up to the last assistant message: the
\* lists below are the empty one and those that end with an assistant message.
TraceRoleLists ==
    {roles \in UNION {[1 .. len -> {"user", "assistant"}] : len \in 0 .. MaxTraceMessages} :
        roles = <<>> \/ roles[Len(roles)] = "assistant"}

\* The messages the gateway returned for a rollout.
Conversation(roles) ==
    [k \in 1 .. Len(roles) |->
        [isdict |-> TRUE, role |-> roles[k], content |-> ContentNames[k],
         tool_call_id |-> "none"]]

\* What a rollout_*.json file holds:
\*   unreadable    not JSON, or the read fails
\*   falsy         JSON that is falsy in Python: {}, [], null, 0, ""
\*   nondict       other JSON that is no object: [1], 5, "x"
\*   nospans       an object without the key spans
\*   spansnotlist  an object whose spans is no list
\*   badspan       an object whose spans list holds an element that is no object
\*   noattrs       an object with one gen_ai span that has no attributes
\*   rawtool       an object with one gen_ai span whose context role is the raw toolResult
\*   trace         a record written for the rollout of the conversation roles
FileShapes ==
    {"unreadable", "falsy", "nondict", "nospans", "spansnotlist", "badspan", "noattrs",
     "rawtool", "trace"}

TraceFiles ==
    {[shape |-> sh, roles |-> <<>>] : sh \in FileShapes \ {"trace"}}
        \cup {[shape |-> "trace", roles |-> r] : r \in TraceRoleLists}

GenAiSpan(a) == [isdict |-> TRUE, name |-> "gen_ai", attributes |-> a]

\* The span of agl.emit_message, which follows the gen_ai spans of a rollout.
MessageSpan == [isdict |-> TRUE, name |-> "agentlightning.message", attributes |-> <<>>]

NotADictSpan == [isdict |-> FALSE, name |-> "none", attributes |-> <<>>]

\* Attributes of a round [toolResult "hi"] -> [assistant "hello"] stored with the raw role
\* and without tool_call_id.
RawToolAttrs ==
    LET a == FlattenGenAiAttrs(Conversation(<<"user">>),
                               <<[isdict |-> TRUE, role |-> "assistant", content |-> "hello",
                                  tool_call_id |-> "none"]>>)
    IN  [key \in DOMAIN a |->
            IF key = AttrKey("prompt", 0, "role") THEN "toolResult" ELSE a[key]]

\* openclaw_agent._emit_gen_ai_spans: one gen_ai span per round, in round order.
EmitGenAiSpans(msgs) ==
    LET rs == MessagesToGenAiRounds(msgs)
    IN  [k \in 1 .. Len(rs) |-> GenAiSpan(FlattenGenAiAttrs(rs[k].prompt, rs[k].completion))]

\* data.get("spans") or [] for the files that hold an object.
RawSpans(file) ==
    CASE file.shape = "trace"   -> EmitGenAiSpans(Conversation(file.roles)) \o <<MessageSpan>>
      [] file.shape = "rawtool" -> <<GenAiSpan(RawToolAttrs), MessageSpan>>
      [] file.shape = "noattrs" -> <<GenAiSpan(<<>>)>>
      [] file.shape = "badspan" -> <<GenAiSpan(RawToolAttrs), NotADictSpan>>
      [] OTHER                  -> <<>>

IsGenAi(sp) == sp.name = "gen_ai"

\* _normalize_attributes_for_adapter
NormalizeAttributesForAdapter(a) ==
    LET toolKeys == {key \in DOMAIN a : key.field = "role" /\ a[key] = "toolResult"}
        added    == {AttrKey(key.part, key.idx, "tool_call_id") : key \in toolKeys}
                        \ DOMAIN a
    IN  [key \in DOMAIN a \cup added |->
            IF key \in toolKeys THEN "tool"
            ELSE IF key \in added THEN "call_placeholder"
            ELSE a[key]]

\* _span_like_from_dict
SpanLikeFromDict(sp) == [attributes |-> NormalizeAttributesForAdapter(sp.attributes)]

\* agentlightning's TraceToMessages reads the gen_ai.prompt.<i> and gen_ai.completion.<j>
\* attributes of one span back into messages, in numeric order.
Unflatten(a, part) ==
    LET cnt == Cardinality({key \in DOMAIN a : key.part = part /\ key.field = "role"})
    IN  [k \in 1 .. cnt |->
            [role         |-> a[AttrKey(part, k - 1, "role")],
             content      |-> a[AttrKey(part, k - 1, "content")],
             tool_call_id |-> IF AttrKey(part, k - 1, "tool_call_id") \in DOMAIN a
                              THEN a[AttrKey(part, k - 1, "tool_call_id")]
                              ELSE "none"]]

\* adapter.adapt when it returns: one entry per span, in span order, whose messages are the
\* span's context followed by its completion.
Adapt(span_likes) ==
    [k \in 1 .. Len(span_likes) |->
        [messages |-> Unflatten(span_likes[k].attributes, "prompt")
                          \o Unflatten(span_likes[k].attributes, "completion")]]

\* Variant: the entry of the first span is taken.
LastEntryFirst(openai_messages_list) == openai_messages_list[1]

\* line 107: openai_messages_list[-1]
LastEntry(openai_messages_list) == openai_messages_list[Len(openai_messages_list)]

\* lines 85-97 for one file: "skip" (continue), "raise" (an exception leaves main) or
\* "adapt" (the gen_ai spans reach the adapter).
FileOutcome(file) ==
    CASE file.shape \in {"unreadable", "falsy"}                      -> "skip"
      [] file.shape = "nondict"                                      -> "raise"
      [] file.shape = "spansnotlist"                                 -> "skip"
      [] \E k \in 1 .. Len(RawSpans(file)) : ~RawSpans(file)[k].isdict -> "raise"
      [] SelectSeq(RawSpans(file), IsGenAi) = <<>>                   -> "skip"
      [] OTHER                                                       -> "adapt"

\* lines 98-110 for one file whose adapter call returns: the messages of the row.
RowMessages(file) ==
    LET gen_ai_spans == SelectSeq(RawSpans(file), IsGenAi)
        span_likes   == [k \in 1 .. Len(gen_ai_spans) |-> SpanLikeFromDict(gen_ai_spans[k])]
        openai_messages_list == Adapt(span_likes)
    IN  IF openai_messages_list = <<>>
        THEN <<>>
        ELSE LastEntry(openai_messages_list).messages

InitExtract ==
    /\ MainIdle
    /\ RoundsIdle
    /\ FlatIdle
    /\ trace_files \in UNION {[1 .. len -> TraceFiles] : len \in 0 .. MaxFiles}
    /\ fi = 0
    /\ samples = <<>>
    /\ sampleFile = <<>>
    /\ adaptRaised = {}
    /\ xpc = "start"
    /\ BridgeIdle
    /\ AgentIdle

\* lines 73-83: no file, nothing to export; otherwise the loop starts.
ExtractGlob ==
    /\ xpc = "start"
    /\ IF trace_files = <<>>
       THEN xpc' = "done" /\ fi' = fi
       ELSE xpc' = "loop" /\ fi' = 1
    /\ UNCHANGED <<trace_files, samples, sampleFile, adaptRaised>>
    /\ UNCHANGED <<mainVars, roundVars, flatVars, bridgeVars, agentVars>>

\* One iteration that ends in continue.
ExtractSkip ==
    /\ xpc = "loop"
    /\ fi <= Len(trace_files)
    /\ \/ FileOutcome(trace_files[fi]) = "skip"
       \/ FileOutcome(trace_files[fi]) = "adapt" /\ RowMessages(trace_files[fi]) = <<>>
    /\ fi' = fi + 1
    /\ UNCHANGED <<trace_files, samples, sampleFile, adaptRaised, xpc>>
    /\ UNCHANGED <<mainVars, roundVars, flatVars, bridgeVars, agentVars>>

\* One iteration in which adapter.adapt raises: lines 99-102.
ExtractAdaptRaise ==
    /\ xpc = "loop"
    /\ fi <= Len(trace_files)
    /\ FileOutcome(trace_files[fi]) = "adapt"
    /\ adaptRaised' = adaptRaised \cup {fi}
    /\ fi' = fi + 1
    /\ UNCHANGED <<trace_files, samples, sampleFile, xpc>>
    /\ UNCHANGED <<mainVars, roundVars, flatVars, bridgeVars, agentVars>>

\* One iteration that appends a row: lines 111-114.
ExtractAppend ==
    /\ xpc = "loop"
    /\ fi <= Len(trace_files)
    /\ FileOutcome(trace_files[fi]) = "adapt"
    /\ RowMessages(trace_files[fi]) /= <<>>
    /\ samples' = Append(samples, [messages |-> RowMessages(trace_files[fi])])
    /\ sampleFile' = Append(sampleFile, fi)
    /\ fi' = fi + 1
    /\ UNCHANGED <<trace_files, adaptRaised, xpc>>
    /\ UNCHANGED <<mainVars, roundVars, flatVars, bridgeVars, agentVars>>

\* One iteration in which data.get (line 90) or s.get (line 95) raises AttributeError.
ExtractRaise ==
    /\ xpc = "loop"
    /\ fi <= Len(trace_files)
    /\ FileOutcome(trace_files[fi]) = "raise"
    /\ xpc' = "raised"
    /\ UNCHANGED <<trace_files, fi, samples, sampleFile, adaptRaised>>
    /\ UNCHANGED <<mainVars, roundVars, flatVars, bridgeVars, agentVars>>

\* lines 116-127: the loop is over; samples is written to OUTPUT_PATH, one row per line.
ExtractWrite ==
    /\ xpc = "loop"
    /\ fi > Len(trace_files)
    /\ xpc' = "done"
    /\ UNCHANGED <<trace_files, fi, samples, sampleFile, adaptRaised>>
    /\ UNCHANGED <<mainVars, roundVars, flatVars, bridgeVars, agentVars>>

NextExtract ==
    \/ ExtractGlob
    \/ ExtractSkip
    \/ ExtractAdaptRaise
    \/ ExtractAppend
    \/ ExtractRaise
    \/ ExtractWrite

SpecExtract == InitExtract /\ [][NextExtract]_vars

\* ================================================================ bridge server
\* bridge_server._ensure_runner and handle_chat

\* The keys of task_input["input"] built by handle_chat.
BridgeInputKeys ==
    {"gatewayBaseUrl", "internalSecret", "sessionKey", "message", "idempotencyKey",
     "_response_ref"}

\* lines 143-148: task_input_safe
TaskInputSafe(keys) == keys \ {"_response_ref"}

\* A rollout_id: the one the store gave to the rollout of request r, or the synthetic
\* "bridge-<timestamp>".
StoreRolloutId(r) == [kind |-> "store", v |-> r]

SyntheticRolloutId(r, t) == [kind |-> "bridge", v |-> t]

\* The seconds the two utcnow() calls of lines 137 and 139 can show: nothing is awaited
\* between them, but the second can change.
ClockReadings ==
    {tt \in (now .. now + 1) \X (now .. now + 1) : tt[1] <= tt[2] /\ tt[2] <= MaxClock}

\* lines 133-157 for request r: the file rollout_<rid>_<timestamp>.json is written.
TraceWrite(r, out, tt) ==
    LET rid == IF out = "id" THEN StoreRolloutId(r) ELSE SyntheticRolloutId(r, tt[1])
    IN  [file       |-> [rid |-> rid, timestamp |-> tt[2]],
         rollout_id |-> rid,
         task_input |-> TaskInputSafe(BridgeInputKeys),
         request    |-> r]

InitBridge ==
    /\ MainIdle
    /\ RoundsIdle
    /\ FlatIdle
    /\ ExtractIdle
    /\ now = 0
    /\ bpc = [r \in Requests |-> "none"]
    /\ bstore = 0
    /\ brunner = 0
    /\ nstores = 0
    /\ bout = [r \in Requests |-> "none"]
    /\ bwrites = <<>>
    /\ nrunners = 0
    /\ blocal = [r \in Requests |-> 0]
    /\ bquery = [r \in Requests |-> 0]
    /\ bbody = [r \in Requests |-> 0]
    /\ bkey = [r \in Requests |-> NoKey]
    /\ AgentIdle

\* The second changes.
Tick ==
    /\ now < MaxClock
    /\ now' = now + 1
    /\ UNCHANGED <<bpc, bstore, brunner, nstores, bout, bwrites>>
    /\ UNCHANGED <<nrunners, blocal, bquery, bbody, bkey>>
    /\ UNCHANGED <<mainVars, roundVars, flatVars, extractVars, agentVars>>

\* lines 77-95: a request that is no JSON or lacks a required field is answered 400.
BridgeBadRequest(r) ==
    /\ bpc[r] = "none"
    /\ bpc' = [bpc EXCEPT ![r] = "bad"]
    /\ UNCHANGED <<now, bstore, brunner, nstores, bout, bwrites>>
    /\ UNCHANGED <<nrunners, blocal, bquery, bbody, bkey>>
    /\ UNCHANGED <<mainVars, roundVars, flatVars, extractVars, agentVars>>

\* The addresses a new body dict can get: any that no live body has.
FreeAddresses == (1 .. MaxRequests) \ {bbody[q] : q \in Requests}

\* The key a client gives with request r; clients give each request its own.
ClientKey(r) == [kind |-> "client", v |-> r]

\* line 103: idempotency_key or f"bridge-{id(body)}"
BridgeKey(r, given, addr) ==
    IF given THEN ClientKey(r) ELSE [kind |-> "bridge", v |-> addr]

\* lines 77-107: a valid request, with or without idempotencyKey; its body is a new dict,
\* task_input is built and _ensure_runner is called.
BridgeAccept(r) ==
    /\ bpc[r] = "none"
    /\ \E given \in BOOLEAN, addr \in FreeAddresses :
          /\ bbody' = [bbody EXCEPT ![r] = addr]
          /\ bkey' = [bkey EXCEPT ![r] = BridgeKey(r, given, addr)]
    /\ bpc' = [bpc EXCEPT ![r] = "ensure"]
    /\ UNCHANGED <<now, bstore, brunner, nstores, bout, bwrites>>
    /\ UNCHANGED <<nrunners, blocal, bquery>>
    /\ UNCHANGED <<mainVars, roundVars, flatVars, extractVars, agentVars>>

\* lines 65-68: _runner is returned if set; otherwise a store is created, assigned to the
\* global _store, and add_resources is awaited.
EnsureRunner(r) ==
    /\ bpc[r] = "ensure"
    /\ IF brunner /= 0
       THEN /\ bpc' = [bpc EXCEPT ![r] = "step"]
            /\ blocal' = [blocal EXCEPT ![r] = brunner]
            /\ UNCHANGED <<bstore, nstores>>
       ELSE /\ nstores' = nstores + 1
            /\ bstore' = nstores + 1
            /\ bpc' = [bpc EXCEPT ![r] = "adding"]
            /\ UNCHANGED blocal
    /\ UNCHANGED <<now, brunner, bout, bwrites>>
    /\ UNCHANGED <<nrunners, bquery, bbody, bkey>>
    /\ UNCHANGED <<mainVars, roundVars, flatVars, extractVars, agentVars>>

\* lines 68-74: add_resources has returned; tracer and runner are built on the global
\* _store as it is now, and the global _runner is assigned and returned.
EnsureFinish(r) ==
    /\ bpc[r] = "adding"
    /\ brunner' = bstore
    /\ nrunners' = nrunners + 1
    /\ blocal' = [blocal EXCEPT ![r] = bstore]
    /\ bpc' = [bpc EXCEPT ![r] = "step"]
    /\ UNCHANGED <<now, bstore, nstores, bout, bwrites>>
    /\ UNCHANGED <<bquery, bbody, bkey>>
    /\ UNCHANGED <<mainVars, roundVars, flatVars, extractVars, agentVars>>

\* lines 107-115: _ensure_runner or runner.step raises; the request is answered 500.
BridgeStepRaise(r) ==
    /\ bpc[r] \in {"adding", "step"}
    /\ bout' = [bout EXCEPT ![r] = "raise"]
    /\ bpc' = [bpc EXCEPT ![r] = "failed"]
    /\ bbody' = [bbody EXCEPT ![r] = 0]
    /\ UNCHANGED <<now, bstore, brunner, nstores, bwrites>>
    /\ UNCHANGED <<nrunners, blocal, bquery, bkey>>
    /\ UNCHANGED <<mainVars, roundVars, flatVars, extractVars, agentVars>>

\* lines 109, 119-131: runner.step returns a rollout with a rollout_id; query_spans of
\* the global _store is awaited.
BridgeStepReturn(r) ==
    /\ bpc[r] = "step"
    /\ bout' = [bout EXCEPT ![r] = "id"]
    /\ bquery' = [bquery EXCEPT ![r] = bstore]
    /\ bpc' = [bpc EXCEPT ![r] = "query"]
    /\ UNCHANGED <<now, bstore, brunner, nstores, bwrites>>
    /\ UNCHANGED <<nrunners, blocal, bbody, bkey>>
    /\ UNCHANGED <<mainVars, roundVars, flatVars, extractVars, agentVars>>

\* lines 109, 119-162: runner.step returns None or a rollout without rollout_id; nothing is
\* awaited any more, the trace file is written under a synthetic id and the request is
\* answered.
BridgeStepReturnNoId(r) ==
    /\ bpc[r] = "step"
    /\ bout' = [bout EXCEPT ![r] = "noid"]
    /\ \E tt \in ClockReadings :
          /\ now' = tt[2]
          /\ bwrites' = Append(bwrites, TraceWrite(r, "noid", tt))
    /\ bpc' = [bpc EXCEPT ![r] = "done"]
    /\ bbody' = [bbody EXCEPT ![r] = 0]
    /\ UNCHANGED <<bstore, brunner, nstores>>
    /\ UNCHANGED <<nrunners, blocal, bquery, bkey>>
    /\ UNCHANGED <<mainVars, roundVars, flatVars, extractVars, agentVars>>

\* lines 130-162: query_spans returns; the trace file is written and the request answered.
BridgeQueryReturn(r) ==
    /\ bpc[r] = "query"
    /\ \E tt \in ClockReadings :
          /\ now' = tt[2]
          /\ bwrites' = Append(bwrites, TraceWrite(r, bout[r], tt))
    /\ bpc' = [bpc EXCEPT ![r] = "done"]
    /\ bbody' = [bbody EXCEPT ![r] = 0]
    /\ UNCHANGED <<bstore, brunner, nstores, bout>>
    /\ UNCHANGED <<nrunners, blocal, bquery, bkey>>
    /\ UNCHANGED <<mainVars, roundVars, flatVars, extractVars, agentVars>>

\* lines 117-162: query_spans or the write raises; the except clause prints, no file is
\* written and the request is answered.
BridgePersistRaise(r) ==
    /\ bpc[r] = "query"
    /\ bpc' = [bpc EXCEPT ![r] = "done"]
    /\ bbody' = [bbody EXCEPT ![r] = 0]
    /\ UNCHANGED <<now, bstore, brunner, nstores, bout, bwrites>>
    /\ UNCHANGED <<nrunners, blocal, bquery, bkey>>
    /\ UNCHANGED <<mainVars, roundVars, flatVars, extractVars, agentVars>>

NextBridge ==
    \/ Tick
    \/ \E r \in Requests :
          \/ BridgeBadRequest(r)
          \/ BridgeAccept(r)
          \/ EnsureRunner(r)
          \/ EnsureFinish(r)
          \/ BridgeStepRaise(r)
          \/ BridgeStepReturn(r)
          \/ BridgeStepReturnNoId(r)
          \/ BridgeQueryReturn(r)
          \/ BridgePersistRaise(r)

SpecBridge == InitBridge /\ [][NextBridge]_vars

\* ================================================================ remote agent client
\* openclaw_agent.openclaw_agent_gateway and _call_gateway_agent_run

\* gatewayBaseUrl after strip():
\*   ""             missing or blank
\*   "http"         an http(s) URL
\*   "noscheme"     no scheme at all, as in gateway.local
\*   "otherscheme"  text before a colon that is no http(s), as in localhost:8080
UrlKinds == {"", "http", "noscheme", "otherscheme"}

MessageValues == {"", "hi"}

IdempotencyKeyValues == {"", "k1"}

\* How urlopen ends for an http(s) URL:
\*   msgs          status 200, a JSON object with a non-empty messages list
\*   nomsgs        status 200, a JSON object without usable messages
\*   notobject     status 200, JSON that is no object
\*   notjson       status 200, a body that is no JSON
\*   non200        another status urlopen returns
\*   httperror     urlopen raises HTTPError and its body can be read
\*   httperrorread urlopen raises HTTPError and reading its body raises
\*   urlerror      urlopen raises URLError
\*   other         any other exception inside the with block (a read timeout, ...)
NetOutcomes ==
    {"msgs", "nomsgs", "notobject", "notjson", "non200", "httperror", "httperrorread",
     "urlerror", "other"}

FailureOutcomes == {"non200", "httperror", "httperrorread", "urlerror", "other"}

\* line 127: urllib.request.Request(url, ...) raises ValueError("unknown url type") when
\* the URL has no scheme.
RequestRaises(url) == url = "noscheme"

\* lines 129-152: what the try block returns for an outcome that it handles.
GatewayResult(outcome) ==
    CASE outcome = "msgs" ->
             [outcome |-> outcome, text |-> "responseText", messages |-> "some"]
      [] outcome = "nomsgs" ->
             [outcome |-> outcome, text |-> "responseText", messages |-> "empty"]
      [] outcome \in {"notobject", "notjson"} ->
             [outcome |-> outcome, text |-> "body", messages |-> "empty"]
      [] OTHER ->
             [outcome |-> outcome, text |-> "sentinel", messages |-> "empty"]

\* line 280: idempotency_key or "agl-bridge"
SentKey(key) == IF key = "" THEN "agl-bridge" ELSE key

InitAgent ==
    /\ MainIdle
    /\ RoundsIdle
    /\ FlatIdle
    /\ ExtractIdle
    /\ BridgeIdle
    /\ aurl \in [AgentCalls -> UrlKinds]
    /\ amsg \in [AgentCalls -> MessageValues]
    /\ aidem \in [AgentCalls -> IdempotencyKeyValues]
    /\ apc = [a \in AgentCalls |-> "start"]
    /\ asent = [a \in AgentCalls |-> "none"]
    /\ aresult = [a \in AgentCalls |-> NoGatewayResult]

\* lines 269-273: no gatewayBaseUrl or no message; the error is emitted and the agent
\* returns without calling the gateway.
AgentReject(a) ==
    /\ apc[a] = "start"
    /\ aurl[a] = "" \/ amsg[a] = ""
    /\ apc' = [apc EXCEPT ![a] = "rejected"]
    /\ UNCHANGED <<aurl, amsg, aidem, asent, aresult>>
    /\ UNCHANGED <<mainVars, roundVars, flatVars, extractVars, bridgeVars>>

\* lines 275-281, 114-127: _call_gateway_agent_run is entered and Request(...) raises;
\* the exception leaves _call_gateway_agent_run and the agent.
GatewayRequestRaise(a) ==
    /\ apc[a] = "start"
    /\ aurl[a] /= "" /\ amsg[a] /= ""
    /\ RequestRaises(aurl[a])
    /\ apc' = [apc EXCEPT ![a] = "raised"]
    /\ UNCHANGED <<aurl, amsg, aidem, asent, aresult>>
    /\ UNCHANGED <<mainVars, roundVars, flatVars, extractVars, bridgeVars>>

\* lines 275-281, 114-130: the request is built and urlopen is called with it.
GatewaySend(a) ==
    /\ apc[a] = "start"
    /\ aurl[a] /= "" /\ amsg[a] /= ""
    /\ ~RequestRaises(aurl[a])
    /\ asent' = [asent EXCEPT ![a] = SentKey(aidem[a])]
    /\ apc' = [apc EXCEPT ![a] = "sent"]
    /\ UNCHANGED <<aurl, amsg, aidem, aresult>>
    /\ UNCHANGED <<mainVars, roundVars, flatVars, extractVars, bridgeVars>>

\* lines 129-152: urlopen ends with an outcome the try block turns into a return value; a
\* URL of another scheme makes urlopen raise URLError.
GatewayReturn(a, outcome) ==
    /\ apc[a] = "sent"
    /\ outcome /= "httperrorread"
    /\ aurl[a] = "otherscheme" => outcome = "urlerror"
    /\ aresult' = [aresult EXCEPT ![a] = GatewayResult(outcome)]
    /\ apc' = [apc EXCEPT ![a] = "called"]
    /\ UNCHANGED <<aurl, amsg, aidem, asent>>
    /\ UNCHANGED <<mainVars, roundVars, flatVars, extractVars, bridgeVars>>

\* lines 146-148: e.read() raises inside the except clause of HTTPError; no later except
\* clause applies and the exception leaves _call_gateway_agent_run and the agent.
GatewayHandlerRaise(a) ==
    /\ apc[a] = "sent"
    /\ aurl[a] = "http"
    /\ apc' = [apc EXCEPT ![a] = "raised"]
    /\ UNCHANGED <<aurl, amsg, aidem, asent, aresult>>
    /\ UNCHANGED <<mainVars, roundVars, flatVars, extractVars, bridgeVars>>

\* lines 283-302: spans and message are emitted, _response_ref is set, the agent returns.
AgentFinish(a) ==
    /\ apc[a] = "called"
    /\ apc' = [apc EXCEPT ![a] = "done"]
    /\ UNCHANGED <<aurl, amsg, aidem, asent, aresult>>
    /\ UNCHANGED <<mainVars, roundVars, flatVars, extractVars, bridgeVars>>

NextAgent ==
    \E a \in AgentCalls :
        \/ AgentReject(a)
        \/ GatewayRequestRaise(a)
        \/ GatewaySend(a)
        \/ \E outcome \in NetOutcomes : GatewayReturn(a, outcome)
        \/ GatewayHandlerRaise(a)
        \/ AgentFinish(a)

SpecAgent == InitAgent /\ [][NextAgent]_vars

\* ================================================================ whole pipeline
\* openclaw_agent._emit_gen_ai_spans, collect_traces.main (write loop), export_sft_dataset.main
\* on the conversation of one rollout

PipelineRoles == {"user", "assistant", "system", "tool", "toolResult"}

\* The conversations the gateway returns: every message has a role and a content.
PipelineRoleLists == UNION {[1 .. len -> PipelineRoles] : len \in 0 .. MaxMessages}

RolesOf(msgs) == [k \in 1 .. Len(msgs) |-> msgs[k].role]

InitPipeline ==
    /\ MainIdle
    /\ \E roles \in PipelineRoleLists : messages = Conversation(roles)
    /\ rounds = <<>>
    /\ rpc = "input"
    /\ LaterIdle

\* collect_traces.py 126-142: the spans emitted for the conversation are written as the
\* trace record of its rollout, the only file of TRACES_DIR, and the extractor is started.
PipelinePersist ==
    /\ rpc = "returned"
    /\ xpc = "idle"
    /\ trace_files' = <<[shape |-> "trace", roles |-> RolesOf(messages)]>>
    /\ xpc' = "start"
    /\ UNCHANGED <<fi, samples, sampleFile, adaptRaised>>
    /\ UNCHANGED <<mainVars, roundVars, flatVars, bridgeVars, agentVars>>

\* The steps of the extractor on a record the dispatcher wrote; its spans are dicts, so the
\* step in which a get raises does not occur.
NextPipeline ==
    \/ SplitRounds
    \/ PipelinePersist
    \/ ExtractGlob
    \/ ExtractSkip
    \/ ExtractAdaptRaise
    \/ ExtractAppend
    \/ ExtractWrite

SpecPipeline == InitPipeline /\ [][NextPipeline]_vars

\* ================================================================ properties
InStep == {i \in Tasks : tstate[i] = "step"}

HoldingSlot == {i \in Tasks : tstate[i] \in {"step", "woken"}}

Submitted == {i \in Tasks : i < n}

\* Task i has a trace record among the written ones.
HasTrace(i) == \E k \in 1 .. Len(traces) : traces[k].task_input.message = i

\* The tuple task i returns from its own outcomes (dropped unless its step gave a rollout_id).
OwnResult(i) ==
    IF stepOut[i] = "id"
    THEN [i |-> i, rollout |-> [present |-> TRUE, rollout_id |-> i + 1],
          spans |-> IF gw[i] = "ok" THEN <<"gen_ai", "message">> ELSE <<"message">>,
          task_input |-> AgentMutation(TaskInput(i), gw[i], inputShared)]
    ELSE [i |-> i, rollout |-> NoRollout, spans |-> <<>>, task_input |-> NoTaskInput]

\* The limit C = max(1, MAX_CONCURRENT) the environment asks for (4 when unset or not a number).
RequestedLimit ==
    IF maxConcEnv.kind = "int"
    THEN (IF maxConcEnv.val > 1 THEN maxConcEnv.val ELSE 1)
    ELSE 4

\* C1: at every moment at most C = max(1, MAX_CONCURRENT) tasks are inside runner.step,
\* whatever the number of prompts.
C1_ConcurrencyBound == Cardinality(InStep) <= RequestedLimit

\* C1 witness: the gate is full and a further task is queued behind it.
C1_Witness ==
    /\ Cardinality(InStep) = RequestedLimit
    /\ \E i \in Tasks : tstate[i] = "waiting"

\* C2: when runner.step raises for task k, task k alone gets the dropped tuple: k returns
\* (it does not raise), every other task that returns has the result of its own outcomes, the
\* batch is aborted only by a query_spans failure and never by the step failure, and once main
\* has written its traces every other task has a trace record exactly when its step returned a
\* rollout with a rollout_id.
C2_StepFailureIsolated ==
    \A k \in Submitted :
        stepOut[k] = "raise" =>
            /\ tstate[k] = "returned"
            /\ ret[k] = DroppedTuple(k)
            /\ \A j \in Submitted \ {k} :
                   /\ tstate[j] = "returned" => ret[j] = OwnResult(j)
                   /\ pc = "done" => (HasTrace(j) <=> stepOut[j] = "id")
            /\ pc = "aborted" => \E q \in Submitted : stepOut[q] = "id" /\ tstate[q] = "raised"

\* C2 witness: main is done, the step of one task raised, and another task has its trace.
C2_Witness ==
    /\ pc = "done"
    /\ \E k, j \in Submitted : k /= j /\ stepOut[k] = "raise" /\ HasTrace(j)

GatewayFailed(i) == gw[i] \in {"status", "transport"}

C4_NoTaskErrorEscapes == pc /= "aborted"

\* C5: once gather has returned, results has one entry per prompt, in submission order:
\* entry k carries index k and the outcome of prompt k, whatever order the tasks finished in.
C5_ResultsInSubmissionOrder ==
    pc \in {"write", "done"} =>
        /\ Len(results) = n
        /\ \A k \in 1 .. Len(results) :
               /\ results[k].i = k - 1
               /\ results[k] = OwnResult(k - 1)

\* C5 witness: results is assigned although the tasks finished in another order than
\* they were submitted in.
C5_Witness ==
    /\ pc = "write"
    /\ Len(results) >= 2
    /\ \E a, b \in 1 .. Len(doneOrder) : a < b /\ doneOrder[a] > doneOrder[b]

\* C6 as stated: when main has ended, task k has a trace record if and only if its step
\* returned a rollout with a non-empty rollout_id.
C6_TraceIffRolloutId ==
    pc \in {"done", "aborted"} =>
        \A i \in Submitted : HasTrace(i) <=> stepOut[i] = "id"

Resolved == {i \in Submitted : tstate[i] \in {"returned", "raised", "cancelled"}}

BatchEnded ==
    \/ pc = "exit"
    \/ /\ pc \in {"done", "aborted"}
       /\ Resolved = Submitted
       /\ semValue = max_concurrent
       /\ max_concurrent >= 1
       /\ semWaiters = <<>>

C8_SlotsReleased ==
    /\ [](max_concurrent - semValue = Cardinality(HoldingSlot))
    /\ <>[]BatchEnded

\* C8 witness: the batch has ended with every slot free after a contended run in which one
\* remote call raised and another timed out.
C8_Witness ==
    /\ pc = "done"
    /\ n > max_concurrent
    /\ semValue = max_concurrent
    /\ \E i, j \in Submitted : stepOut[i] = "raise" /\ gw[j] = "transport"

\* ---------------------------------------------------------------- round splitter properties
IsPrefix(a, b) == Len(a) <= Len(b) /\ SubSeq(b, 1, Len(a)) = a

IsStrictPrefix(a, b) == Len(a) < Len(b) /\ SubSeq(b, 1, Len(a)) = a

\* C9 as stated: the context of each round is a strict prefix of the next round's context,
\* and the next round's context is this round's context followed by this round's completion.
C9_NextContextIsContextPlusCompletion ==
    rpc = "returned" =>
        \A i \in 1 .. Len(rounds) - 1 :
            /\ IsStrictPrefix(rounds[i].prompt, rounds[i + 1].prompt)
            /\ rounds[i + 1].prompt = rounds[i].prompt \o rounds[i].completion

\* C9 amended: the context of each round is a strict prefix of the next round's context, and
\* the next round's context is this round's context, then this round's completion, then the
\* (one or more) non-assistant messages that came between the two completions.
C9_CumulativeContext ==
    rpc = "returned" =>
        \A i \in 1 .. Len(rounds) - 1 :
            LET seen == rounds[i].prompt \o rounds[i].completion
                nxt  == rounds[i + 1].prompt
            IN  /\ IsStrictPrefix(rounds[i].prompt, nxt)
                /\ IsStrictPrefix(seen, nxt)
                /\ \A k \in Len(seen) + 1 .. Len(nxt) : nxt[k].role /= "assistant"

\* C9 witness: the splitter returned several rounds, the first with a completion of two messages.
C9_Witness == rpc = "returned" /\ Len(rounds) >= 2 /\ Len(rounds[1].completion) >= 2

\* C10: the context of every round is the input up to the round's completion, and the
\* completion is the maximal run of assistant messages that follows it in the input.
C10_ContextIsInputPrefix ==
    rpc = "returned" =>
        \A i \in 1 .. Len(rounds) :
            LET p == Len(rounds[i].prompt)
                c == Len(rounds[i].completion)
            IN  /\ c >= 1
                /\ p + c <= Len(messages)
                /\ rounds[i].prompt = SubSeq(messages, 1, p)
                /\ rounds[i].completion = SubSeq(messages, p + 1, p + c)
                /\ IsPrefix(rounds[i].prompt \o rounds[i].completion, messages)
                /\ \A k \in p + 1 .. p + c : messages[k].role = "assistant"
                /\ p >= 1 => messages[p].role /= "assistant"
                /\ p + c < Len(messages) => messages[p + c + 1].role /= "assistant"

\* C10 witness: a second round whose context holds the first round's completion, and input
\* left over after the last completion.
C10_Witness ==
    /\ rpc = "returned"
    /\ Len(rounds) >= 2
    /\ messages[Len(messages)].role /= "assistant"
    /\ \E k \in 1 .. Len(rounds[2].prompt) : rounds[2].prompt[k].role = "assistant"

\* The number of maximal runs of consecutive assistant messages in msgs.
AssistantRuns(msgs) ==
    Cardinality({k \in 1 .. Len(msgs) :
                    /\ msgs[k].role = "assistant"
                    /\ (k = 1 \/ msgs[k - 1].role /= "assistant")})

\* C11: the number of rounds is the number of maximal runs of consecutive assistant messages:
\* none for an empty input or an input without assistant message, none for a trailing run of
\* other messages, and a round with empty context for a run at the very start.
C11_RoundCount ==
    rpc = "returned" =>
        /\ Len(rounds) = AssistantRuns(messages)
        /\ (\A k \in 1 .. Len(messages) : messages[k].role /= "assistant") => rounds = <<>>
        /\ (messages /= <<>> /\ messages[1].role = "assistant") =>
               (rounds /= <<>> /\ rounds[1].prompt = <<>>)

\* C11 witness: an input that starts with an assistant run, has a second run later and
\* ends with messages that no completion follows.
C11_Witness ==
    /\ rpc = "returned"
    /\ Len(rounds) = 2
    /\ rounds[1].prompt = <<>>
    /\ messages[Len(messages)].role /= "assistant"

\* The flat sequence read back from the rounds: for each round in order, the context messages
\* it adds to what was read so far, then its completion.
RECURSIVE Rebuild(_, _, _)
Rebuild(rs, i, acc) ==
    IF i > Len(rs)
    THEN acc
    ELSE LET delta == SubSeq(rs[i].prompt, Len(acc) + 1, Len(rs[i].prompt))
         IN  Rebuild(rs, i + 1, acc \o delta \o rs[i].completion)

\* The position of the last assistant message of msgs, 0 if there is none.
LastAssistant(msgs) ==
    LET pos == {k \in 1 .. Len(msgs) : msgs[k].role = "assistant"}
    IN  IF pos = {} THEN 0 ELSE CHOOSE k \in pos : \A m \in pos : m <= k

\* C12 as stated: the rounds read back in order give the original message sequence.
C12_RebuildIsInput ==
    rpc = "returned" => Rebuild(rounds, 1, <<>>) = messages

\* C12 amended: the rounds read back in order give the input up to and including its last
\* assistant message; the messages after it belong to no round and are lost, so the whole
\* input is read back exactly when it is empty or ends with an assistant message.
C12_RebuildIsInputUpToLastCompletion ==
    rpc = "returned" =>
        /\ Rebuild(rounds, 1, <<>>) = SubSeq(messages, 1, LastAssistant(messages))
        /\ (Rebuild(rounds, 1, <<>>) = messages) <=> (LastAssistant(messages) = Len(messages))

\* C12 witness: two rounds read back to a proper, non-empty prefix of the input.
C12_Witness ==
    /\ rpc = "returned"
    /\ Len(rounds) = 2
    /\ LastAssistant(messages) < Len(messages)
    /\ Rebuild(rounds, 1, <<>>) /= <<>>

\* ---------------------------------------------------------------- flattener properties
OpenAiRoles == {"user", "assistant", "system", "tool"}

RoleKeys == {key \in DOMAIN attrs : key.field = "role"}

\* The message of the flattened round a key was written for.
MessageOf(key) ==
    IF key.part = "prompt" THEN fprompt[key.idx + 1] ELSE fcompletion[key.idx + 1]

\* C13 as stated: whatever the role of a message, the role written for it is one of user,
\* assistant, system, tool, and toolResult is written as tool.
C13_RolesInFixedSet ==
    fpc = "returned" =>
        \A key \in RoleKeys :
            /\ attrs[key] \in OpenAiRoles
            /\ MessageOf(key).role = "toolResult" => attrs[key] = "tool"

\* The synthetic identifiers: the tool_call_id values written for messages that have none.
SyntheticIdKeys ==
    {key \in DOMAIN attrs :
        key.field = "tool_call_id" /\ MessageOf(key).tool_call_id \in {"none", ""}}

\* C14 as stated: tool messages without tool_call_id at different positions never get the
\* same synthetic identifier.
C14_SyntheticIdsDistinct ==
    fpc = "returned" =>
        \A k1, k2 \in SyntheticIdKeys : k1 /= k2 => attrs[k1] /= attrs[k2]

\* C14 amended: every context message written as tool has a tool_call_id key at its own
\* position; a tool_call_id the message carries is kept, and a missing one is always the
\* same fixed "call_placeholder", so tool messages at different positions share the value and
\* differ only in the position of their key.
C14_PlaceholderIsFixed ==
    fpc = "returned" =>
        /\ \A k \in 1 .. Len(fprompt) :
               attrs[AttrKey("prompt", k - 1, "role")] = "tool" =>
                   /\ AttrKey("prompt", k - 1, "tool_call_id") \in DOMAIN attrs
                   /\ attrs[AttrKey("prompt", k - 1, "tool_call_id")] =
                          IF fprompt[k].tool_call_id \in {"none", ""}
                          THEN "call_placeholder"
                          ELSE fprompt[k].tool_call_id
        /\ \A k1, k2 \in SyntheticIdKeys : attrs[k1] = attrs[k2]

\* C14 witness: two tool messages without tool_call_id at different positions of one context.
C14_Witness ==
    /\ fpc = "returned"
    /\ Cardinality(SyntheticIdKeys) >= 2

\* The keys a round of this shape must give: role and content for every position.
ExpectedKeys ==
    {AttrKey("prompt", k - 1, f) : k \in 1 .. Len(fprompt), f \in {"role", "content"}}
        \cup {AttrKey("completion", k - 1, f) :
                 k \in 1 .. Len(fcompletion), f \in {"role", "content"}}

Missing(v) == v \in {"none", ""}

\* C15 as stated: the call never fails on a round, malformed messages included, and the map
\* has a role and a content for every message, a missing content being the empty string and
\* a missing role being user.
C15_TotalDefaultsUser ==
    /\ fpc /= "raised"
    /\ fpc = "returned" =>
           /\ ExpectedKeys \subseteq DOMAIN attrs
           /\ \A key \in DOMAIN attrs :
                  /\ (key.field = "content" /\ Missing(MessageOf(key).content)) =>
                         attrs[key] = ""
                  /\ (key.field = "role" /\ Missing(MessageOf(key).role)) =>
                         attrs[key] = "user"

\* The role and content keys of one part read back in numeric position order.
ReadBack(part) ==
    LET cnt == Cardinality({key \in DOMAIN attrs : key.part = part /\ key.field = "role"})
    IN  [k \in 1 .. cnt |-> [role    |-> attrs[AttrKey(part, k - 1, "role")],
                             content |-> attrs[AttrKey(part, k - 1, "content")]]]

RoleAndContent(msgs) ==
    [k \in 1 .. Len(msgs) |-> [role |-> msgs[k].role, content |-> msgs[k].content]]

\* A round of messages that each carry a role and a content, none of them a tool message.
NoToolRound ==
    \A k \in 1 .. Len(fprompt \o fcompletion) :
        LET m == (fprompt \o fcompletion)[k]
        IN  /\ m.isdict
            /\ m.role \notin {"tool", "toolResult", "", "none"}
            /\ m.content /= "none"

FileRounds(file) == MessagesToGenAiRounds(Conversation(file.roles))

\* The context of the last round of a trace file followed by its completion.
LastRoundMessages(file) ==
    LET rs   == FileRounds(file)
        last == rs[Len(rs)].prompt \o rs[Len(rs)].completion
    IN  [k \in 1 .. Len(last) |->
            [role |-> last[k].role, content |-> last[k].content, tool_call_id |-> "none"]]

\* The rows of samples made from the file at position i.
RowsOf(i) == {k \in 1 .. Len(samples) : sampleFile[k] = i}

\* A trace file the loop is done with, which holds at least one gen_ai round span and on
\* which the adapter did not raise.
ExtractedTrace(i) ==
    /\ i < fi
    /\ trace_files[i].shape = "trace"
    /\ FileRounds(trace_files[i]) /= <<>>
    /\ i \notin adaptRaised

\* C17: a trace record with gen_ai round spans gives exactly one example, and its messages
\* are the last round's context followed by the last round's completion.
C17_LastRoundOnly ==
    \A i \in 1 .. Len(trace_files) :
        ExtractedTrace(i) =>
            /\ Cardinality(RowsOf(i)) = 1
            /\ \A k \in RowsOf(i) :
                   samples[k].messages = LastRoundMessages(trace_files[i])

\* C17 witness: the run is over and a record with several round spans gave its example.
C17_Witness ==
    /\ xpc = "done"
    /\ \E i \in 1 .. Len(trace_files) :
           /\ ExtractedTrace(i)
           /\ Len(FileRounds(trace_files[i])) >= 2
           /\ RowsOf(i) /= {}

\* C18 as stated: the extractor never raises, whatever the trace files hold, and a run that
\* ends has been through every file.
C18_ExtractorNeverRaises ==
    /\ xpc /= "raised"
    /\ xpc = "done" => fi = Len(trace_files) + 1 \/ trace_files = <<>>

\* ---------------------------------------------------------------- bridge properties
\* C19 as stated: no trace write targets a file an earlier write used, and no two written
\* records share a rollout_id, synthetic ids and writes within one second included.
C19_StorageKeysUnique ==
    \A j, k \in 1 .. Len(bwrites) :
        j /= k =>
            /\ bwrites[j].file /= bwrites[k].file
            /\ bwrites[j].rollout_id /= bwrites[k].rollout_id

\* ---------------------------------------------------------------- persisted task_input
\* C20 as stated: the task_input of every record the dispatcher writes is the task as it was
\* built before dispatch, without _response_ref, and the task_input of every record the
\* bridge writes has no _response_ref.
C20_TaskInputAsBuilt ==
    /\ \A k \in 1 .. Len(traces) :
           traces[k].task_input = TaskInput(traces[k].task_input.message)
    /\ \A k \in 1 .. Len(bwrites) : "_response_ref" \notin bwrites[k].task_input

\* ---------------------------------------------------------------- remote agent client properties
\* C21 as stated: _call_gateway_agent_run never raises, and whenever a request was sent and
\* the call has ended, a failure of the call gave the bracketed sentinel string with an empty
\* message list.
C21_GatewayCallNeverRaises ==
    \A a \in AgentCalls :
        /\ apc[a] /= "raised"
        /\ aresult[a].outcome \in FailureOutcomes =>
               /\ aresult[a].text = "sentinel"
               /\ aresult[a].messages = "empty"

\* ---------------------------------------------------------------- configuration errors
\* An environment value that is missing or blank.
Blank(v) == v \in {"", " "}

ConfigIncomplete == Blank(env.gateway) \/ Blank(env.secret) \/ Blank(env.session)

\* C22: when the endpoint base URL, the shared secret or the session identifier is missing
\* or blank, main only exits: no task is created, no step and no gateway call is made and no
\* trace record is written.
C22_ConfigErrorStopsBatch ==
    ConfigIncomplete =>
        /\ pc \in {"start", "exit"}
        /\ \A i \in Tasks : tstate[i] = "none" /\ gw[i] = "none" /\ stepOut[i] = "none"
        /\ semValue = 0
        /\ results = <<>>
        /\ traces = <<>>
        /\ written = 0

\* C22 witness: main has exited on a blank secret with prompts waiting.
C22_Witness ==
    /\ pc = "exit"
    /\ n > 0
    /\ env.gateway = "v"
    /\ env.secret = " "
    /\ env.session = "v"

\* ---------------------------------------------------------------- pipeline properties
RoleContent(msgs) ==
    [k \in 1 .. Len(msgs) |-> [role |-> msgs[k].role, content |-> msgs[k].content]]

\* The pipeline has run to its end on a conversation that ends with an assistant message,
\* and the adapter did not raise.
PipelineDone ==
    /\ xpc = "done"
    /\ adaptRaised = {}
    /\ messages /= <<>>
    /\ messages[Len(messages)].role = "assistant"

KeySent == {r \in Requests : bout[r] \in {"id", "noid"}}

\* In the bridge: no two requests whose rollout ran carry the same key.  It fails
\* when both carry no idempotencyKey and the body of the second is allocated at the address
\* the freed body of the first had.
BridgeKeysUnique ==
    \A r, q \in KeySent : r /= q => bkey[r] /= bkey[q]

\* The rollouts that sent a request to the agent-run endpoint for a task without a key.
SentWithoutTaskKey == {a \in AgentCalls : asent[a] /= "none" /\ aidem[a] = ""}

\* C25 as stated: no two distinct tasks send the same idempotency key, also when the task
\* supplies no key and one is generated for it.
C25_KeysUnique ==
    \A a, b \in SentWithoutTaskKey : a /= b => asent[a] /= asent[b]

\* ---------------------------------------------------------------- _ensure_runner
\* C26 as stated: the store and the runner are created at most once, and every request
\* queries spans from the store its runner's tracer writes to.
C26_OneStoreOneRunner ==
    /\ nstores <= 1
    /\ nrunners <= 1
    /\ \A r \in Requests : bquery[r] /= 0 => bquery[r] = blocal[r]

====
